---- MODULE Spec2Model ----
(***************************************************************************)
(* A model of the signalbot pipeline: the webhook ingress                  *)
(* (functions/webhook/main.py), the command router                         *)
(* (functions/message-processor/main.py) and the two Pub/Sub topics        *)
(* between them.                                                           *)
(*                                                                         *)
(* Text is a sequence of pieces whose concatenation is the Python string:  *)
(* text that comes from a user is a sequence of one-character strings,     *)
(* literals of the code are one piece each.  A JSON value is a record      *)
(* [t, v] where t is its type and v its text; Python's None is JSON null.  *)
(***************************************************************************)
EXTENDS Integers, Sequences, FiniteSets, TLC

VARIABLES
    signalMessages,   \* topic 'signal-messages': payloads published and not yet acknowledged
    stockRequests,    \* topic 'stock-requests': StockRequests published
    commands,         \* Firestore collection 'commands': the documents stored
    responses,        \* the replies handed to the router's send_response, in order
    pm,               \* the last invocation of process_message: event, effects, outcome
    wh,               \* the last invocation of signal_webhook: request, response, publishes
    nDeliveries,      \* invocations of process_message so far
    nRequests,        \* invocations of signal_webhook so far
    resources,        \* the bridge's bucket and secret: bucket, blobs, secret, versions
    br,               \* the last invocation of a bridge endpoint: request, response, calls
    nBridgeCalls,     \* invocations of the bridge endpoints so far
    stockReplies,     \* the replies handed to the quote handler's send_signal_response
    sh,               \* the last invocation of handle_stock_request: event, provider, result
    handled,          \* every invocation of handle_stock_request so far, in order
    nStockDeliveries, \* invocations of handle_stock_request so far
    ackedMessages,    \* indices of signalMessages the broker has seen acknowledged
    ackedRequests,    \* indices of stockRequests the broker has seen acknowledged
    redelivered       \* the deliveries whose acknowledgment was lost: <<topic, index>>

routerVars == <<stockRequests, commands, responses, pm, nDeliveries>>
webhookVars == <<signalMessages, wh, nRequests>>
bridgeVars == <<resources, br, nBridgeCalls>>
stockVars == <<stockReplies, sh, handled, nStockDeliveries>>
pipelineVars == <<ackedMessages, ackedRequests, redelivered>>
vars == <<routerVars, webhookVars, bridgeVars, stockVars, pipelineVars>>

\* Bounds of the model.
MaxDeliveries == 2
MaxRequests == 2
MaxBridgeCalls == 3
MaxStockDeliveries == 2
MaxRedeliveries == 3
MaxPosts == 2

----------------------------------------------------------------------------
\* JSON values and Python truthiness

JAbsent == [t |-> "absent", v |-> <<>>]
JNull == [t |-> "null", v |-> <<>>]
JStr(s) == [t |-> "str", v |-> s]
JNum(digits) == [t |-> "num", v |-> <<digits>>]

\* dict.get(key): a missing key reads as None
get(val) == IF val.t = "absent" THEN JNull ELSE val

\* dict.get(key, default)
get_default(val, default) == IF val.t = "absent" THEN default ELSE val

\* bool(x) of a JSON scalar
truthy(val) ==
    CASE val.t = "str" -> val.v # <<>>
      [] val.t = "num" -> val.v # <<"0">>
      [] OTHER -> FALSE

----------------------------------------------------------------------------
\* Python string operations, on sequences of characters

Uppers == <<"A","B","C","D","E","F","G","H","I","J","K","L","M",
            "N","O","P","Q","R","S","T","U","V","W","X","Y","Z">>
Lowers == <<"a","b","c","d","e","f","g","h","i","j","k","l","m",
            "n","o","p","q","r","s","t","u","v","w","x","y","z">>

IsUpperAZ(c) == \E i \in DOMAIN Uppers : Uppers[i] = c
IsLowerAZ(c) == \E i \in DOMAIN Lowers : Lowers[i] = c

\* str.isspace() of one character
isspace(c) == c \in {" ", "\t", "\n"}

\* str.lower() of one character
lower_char(c) ==
    IF IsUpperAZ(c) THEN Lowers[CHOOSE i \in DOMAIN Uppers : Uppers[i] = c] ELSE c

\* str.upper() of one character; the German sharp s (written "sharp-s" here)
\* has no single upper-case letter and becomes "SS"
upper_char(c) ==
    IF IsLowerAZ(c) THEN <<Uppers[CHOOSE i \in DOMAIN Lowers : Lowers[i] = c]>>
    ELSE IF c = "sharp-s" THEN <<"S", "S">>
    ELSE <<c>>

lower(s) == [i \in DOMAIN s |-> lower_char(s[i])]

RECURSIVE upper(_)
upper(s) == IF s = <<>> THEN <<>> ELSE upper_char(Head(s)) \o upper(Tail(s))

RECURSIVE lstrip(_)
lstrip(s) ==
    IF s # <<>> /\ isspace(Head(s)) THEN lstrip(Tail(s)) ELSE s

RECURSIVE rstrip(_)
rstrip(s) ==
    IF s # <<>> /\ isspace(s[Len(s)]) THEN rstrip(SubSeq(s, 1, Len(s) - 1)) ELSE s

strip(s) == rstrip(lstrip(s))

startswith(s, c) == s # <<>> /\ Head(s) = c

\* the first maximal run of non-space characters of s, s not starting with a space
RECURSIVE first_token(_)
first_token(s) ==
    IF s = <<>> \/ isspace(Head(s)) THEN <<>>
    ELSE <<Head(s)>> \o first_token(Tail(s))

\* str.split() with no separator: the maximal runs of non-space characters
RECURSIVE split(_)
split(s) ==
    LET t == lstrip(s) IN
    IF t = <<>> THEN <<>>
    ELSE LET tok == first_token(t)
         IN <<tok>> \o split(SubSeq(t, Len(tok) + 1, Len(t)))

\* faulty variant: the pattern without its '$', r'^[A-Z]{1,5}'
re_match_ticker_unanchored(ticker) == ticker # <<>> /\ IsUpperAZ(ticker[1])

\* re.match(r'^[A-Z]{1,5}$', ticker): one to five letters A-Z; Python's '$'
\* also matches just before a final newline
re_match_ticker(ticker) ==
    LET core == IF ticker # <<>> /\ ticker[Len(ticker)] = "\n"
                THEN SubSeq(ticker, 1, Len(ticker) - 1) ELSE ticker
    IN /\ Len(core) \in 1..5
       /\ \A i \in 1..Len(core) : IsUpperAZ(core[i])

----------------------------------------------------------------------------
\* The command router: functions/message-processor/main.py

\* One effect of a handler on the outside world, in the order of the calls:
\*   "publish": publisher.publish(...) then future.result(); text is the ticker
\*   "reply":   send_response(sender, text, group_id)
\*   "log":     doc_ref.set({sender, command, args, group_id, timestamp})
\* ok is FALSE when the call raised.
Publish(sender, ticker, group_id, ok) ==
    [e |-> "publish", ok |-> ok, sender |-> sender, group_id |-> group_id,
     text |-> ticker, command |-> <<>>, args |-> <<>>]

send_response(sender, message, group_id) ==
    [e |-> "reply", ok |-> TRUE, sender |-> sender, group_id |-> group_id,
     text |-> message, command |-> <<>>, args |-> <<>>]

DocSet(sender, command, args, group_id, ok) ==
    [e |-> "log", ok |-> ok, sender |-> sender, group_id |-> group_id,
     text |-> <<>>, command |-> command, args |-> args]

UsageText == <<"Usage: /stock <ticker>\nExample: /stock AAPL">>
InvalidTickerText == <<"Invalid ticker symbol. Please use 1-5 letters.">>
HelpText(context) ==
    <<"Signal Stock Bot - Available Commands ... Usage in ", context,
      ": ... Try: /stock AAPL">>
UnknownText(command) ==
    <<"Unknown command: ">> \o command \o <<"\nType /help for available commands.">>
AckText(command) == <<"Processing ">> \o command \o <<" command...">>

\* Each routine yields the effects it performed and whether it raised.

\* faulty variant: the ticker is args[0], not upper-cased
route_stock_command_no_upper(sender, args, group_id, pubOk) ==
    IF args = <<>>
    THEN [trace |-> <<send_response(sender, UsageText, group_id)>>, raised |-> FALSE]
    ELSE LET ticker == args[1] IN
         IF ~re_match_ticker(ticker)
         THEN [trace |-> <<send_response(sender, InvalidTickerText, group_id)>>,
               raised |-> FALSE]
         ELSE [trace |-> <<Publish(sender, ticker, group_id, pubOk)>>,
               raised |-> ~pubOk]

\* faulty variant: an invalid ticker is answered with the usage string
route_stock_command_usage_only(sender, args, group_id, pubOk) ==
    IF args = <<>> \/ ~re_match_ticker(upper(args[1]))
    THEN [trace |-> <<send_response(sender, UsageText, group_id)>>, raised |-> FALSE]
    ELSE [trace |-> <<Publish(sender, upper(args[1]), group_id, pubOk)>>,
          raised |-> ~pubOk]

route_stock_command(sender, args, group_id, pubOk) ==
    IF args = <<>>
    THEN [trace |-> <<send_response(sender, UsageText, group_id)>>, raised |-> FALSE]
    ELSE LET ticker == upper(args[1]) IN
         IF ~re_match_ticker(ticker)
         THEN [trace |-> <<send_response(sender, InvalidTickerText, group_id)>>,
               raised |-> FALSE]
         ELSE [trace |-> <<Publish(sender, ticker, group_id, pubOk)>>,
               raised |-> ~pubOk]

route_help_command(sender, group_id) ==
    LET context == IF truthy(group_id) THEN "group chat" ELSE "direct message"
    IN [trace |-> <<send_response(sender, HelpText(context), group_id)>>,
        raised |-> FALSE]

\* faulty variant: the reply without its second line
send_unknown_command_response_no_hint(sender, command, group_id) ==
    [trace |-> <<send_response(sender, <<"Unknown command: ">> \o command, group_id)>>,
     raised |-> FALSE]

send_unknown_command_response(sender, command, group_id) ==
    [trace |-> <<send_response(sender, UnknownText(command), group_id)>>,
     raised |-> FALSE]

\* faulty variant: log_command_usage without its try/except
log_command_usage_uncaught(sender, command, args, group_id, storeOk) ==
    [trace |-> <<DocSet(sender, command, args, group_id, storeOk)>>,
     raised |-> ~storeOk]

\* the store's failure is caught inside log_command_usage
log_command_usage(sender, command, args, group_id, storeOk) ==
    [trace |-> <<DocSet(sender, command, args, group_id, storeOk)>>,
     raised |-> FALSE]

\* message_text.startswith('/') on the stripped text
\* faulty variant: any non-empty text is taken for a command
is_command_nonempty(message_text) == message_text # <<>>

is_command(message_text) == startswith(message_text, "/")

\* A Pub/Sub event: enc says how far the payload decodes,
\*   "ok"         a JSON object, msg holds its four keys
\*   "no_data"    cloud_event.data["message"]["data"] is missing (KeyError)
\*   "bad_base64" b64decode raises
\*   "bad_json"   json.loads raises
\*   "not_object" the JSON text is a list or a scalar (.get raises)
Event(enc, source, message, group_id) ==
    [enc |-> enc,
     msg |-> [timestamp |-> JNum("1"), source |-> source,
              message |-> message, group_id |-> group_id]]

\* the body of the try block of process_message
process_message_try(ev, pubOk, storeOk) ==
    IF ev.enc # "ok" THEN [trace |-> <<>>, raised |-> TRUE]
    ELSE
    LET sender == get(ev.msg.source)
        message == get_default(ev.msg.message, JStr(<<>>))
        group_id == get(ev.msg.group_id)
    IN
    IF message.t # "str" THEN [trace |-> <<>>, raised |-> TRUE]
    ELSE
    LET message_text == strip(message.v) IN
    IF ~is_command(message_text) THEN [trace |-> <<>>, raised |-> FALSE]
    ELSE
    LET command_parts == split(message_text)
        command == lower(command_parts[1])
        args == IF Len(command_parts) > 1 THEN Tail(command_parts) ELSE <<>>
        routed == IF command = <<"/","s","t","o","c","k">>
                  THEN route_stock_command(sender, args, group_id, pubOk)
                  ELSE IF command = <<"/","h","e","l","p">>
                  THEN route_help_command(sender, group_id)
                  ELSE send_unknown_command_response(sender, command, group_id)
    IN
    IF routed.raised THEN [trace |-> routed.trace, raised |-> TRUE]
    ELSE
    LET logged == log_command_usage(sender, command, args, group_id, storeOk) IN
    IF logged.raised
    THEN [trace |-> routed.trace \o logged.trace, raised |-> TRUE]
    ELSE
    [trace |-> routed.trace \o logged.trace \o
               (IF truthy(group_id)
                THEN <<send_response(sender, AckText(command), group_id)>>
                ELSE <<>>),
     raised |-> FALSE]

\* process_message: the try block and its except Exception, which logs and returns
\* faulty variant: process_message without its except Exception
process_message_uncaught(ev, pubOk, storeOk) ==
    LET r == process_message_try(ev, pubOk, storeOk)
    IN [trace |-> r.trace,
        outcome |-> IF r.raised THEN "raised" ELSE "returned",
        errorLogged |-> FALSE]

process_message(ev, pubOk, storeOk) ==
    LET r == process_message_try(ev, pubOk, storeOk)
    IN [trace |-> r.trace, outcome |-> "returned", errorLogged |-> r.raised]

\* What a trace leaves behind
IsPublished(x) == x.e = "publish" /\ x.ok
IsStored(x) == x.e = "log" /\ x.ok
IsReply(x) == x.e = "reply"

\* faulty variant: the StockRequest is published without the group
StockRequest_without_group(x) == [sender |-> x.sender, ticker |-> x.text, group_id |-> JNull]

StockRequest(x) == [sender |-> x.sender, ticker |-> x.text, group_id |-> x.group_id]
UsageRecord(x) ==
    [sender |-> x.sender, command |-> x.command, args |-> x.args,
     group_id |-> x.group_id]
Response(x) == [sender |-> x.sender, message |-> x.text, group_id |-> x.group_id]

Published(trace) ==
    LET s == SelectSeq(trace, IsPublished) IN [i \in DOMAIN s |-> StockRequest(s[i])]
Stored(trace) ==
    LET s == SelectSeq(trace, IsStored) IN [i \in DOMAIN s |-> UsageRecord(s[i])]
Replied(trace) ==
    LET s == SelectSeq(trace, IsReply) IN [i \in DOMAIN s |-> Response(s[i])]

----------------------------------------------------------------------------
\* The events delivered to the router

P1 == <<"+15550001">>
G1 == <<"group-1">>

T_stock == <<"/","s","t","o","c","k">>
Texts ==
    { <<>>,
      <<"h","i">>,
      <<" ","/","H","E","L","P"," ">>,
      <<"/","F","o","o"," ","x"," ","y">>,
      T_stock,
      T_stock \o <<" ","g","o","o","g","l">>,
      <<"/","S","t","o","c","k","\t","F"," ","\n","x","\n">>,
      T_stock \o <<" ","sharp-s","t">>,
      T_stock \o <<" ","a","b","c","d","e","f">>,
      T_stock \o <<" ","a","b","1">> }

Sources == {JStr(P1), JNull}
GroupIds == {JStr(G1), JNull}
Messages == {JStr(t) : t \in Texts} \cup {JAbsent, JNull, JNum("7")}

RouterEvents ==
    {Event("ok", s, m, g) : s \in Sources, m \in Messages, g \in GroupIds}
    \cup {Event(enc, JNull, JNull, JNull) :
            enc \in {"no_data", "bad_base64", "bad_json", "not_object"}}

NoEvent == Event("none", JNull, JNull, JNull)

----------------------------------------------------------------------------
\* The webhook ingress: functions/webhook/main.py

\* request.get_json(silent=True) yields
\*   kind "none"    None: no body, or a body that is not JSON
\*   kind "falsy"   a JSON value Python takes as false: {}, [], 0, "", false, null
\*   kind "nondict" any other JSON value that is not an object (.get raises)
\*   kind "dict"    a non-empty JSON object, envelope holding its 'envelope' key
\* An object is a record of its keys with t = "obj"; t = "absent" is a missing
\* key and t = "null" a JSON null, the other fields then being fillers.
GroupInfo(t, groupId) == [t |-> t, groupId |-> groupId]
DataMessage(t, message, groupInfo) ==
    [t |-> t, message |-> message, groupInfo |-> groupInfo]
Envelope(t, source, dataMessage) ==
    [t |-> t, timestamp |-> JNum("1"), source |-> source, dataMessage |-> dataMessage]
NoGroupInfo == GroupInfo("absent", JAbsent)
NoDataMessage == DataMessage("absent", JAbsent, NoGroupInfo)
NoEnvelope == Envelope("absent", JAbsent, NoDataMessage)
Body(kind, envelope) == [kind |-> kind, envelope |-> envelope]
Request(method, body) == [method |-> method, body |-> body]

\* the response tuple (body, status code, headers)
Resp(code, status, error, message, headers) ==
    [code |-> code, status |-> status, error |-> error, message |-> message,
     headers |-> headers]

PreflightHeaders ==
    {"Access-Control-Allow-Origin", "Access-Control-Allow-Methods",
     "Access-Control-Allow-Headers", "Access-Control-Max-Age"}
CorsHeaders == {"Access-Control-Allow-Origin"}

\* what json.dumps(...).encode('utf-8') of message_data decodes to in the router
encode(message_data) == [enc |-> "ok", msg |-> message_data]

\* publisher.publish(topic_path, payload) then future.result()
PublishMessage(payload, ok) == [payload |-> payload, ok |-> ok]

\* dict.get(key, {}) on a JSON object: the default only replaces a missing
\* key, a null stays None
get_obj(val) == IF val.t = "absent" THEN [val EXCEPT !.t = "obj"] ELSE val

\* the try block of signal_webhook, for a method other than OPTIONS
signal_webhook_try(request, pubOk) ==
    LET cors == CorsHeaders IN
    IF request.method = "GET"
    THEN [response |-> Resp(200, "healthy", "", <<>>, cors), calls |-> <<>>,
          raised |-> FALSE]
    ELSE IF request.method # "POST"
    THEN [response |-> Resp(405, "", "Method not allowed", <<>>, cors),
          calls |-> <<>>, raised |-> FALSE]
    ELSE IF request.body.kind \in {"none", "falsy"}
    THEN [response |-> Resp(400, "", "No JSON payload", <<>>, cors),
          calls |-> <<>>, raised |-> FALSE]
    ELSE
    LET failed == [response |-> Resp(500, "", "Internal server error", <<>>, cors),
                   calls |-> <<>>, raised |-> TRUE]
    IN
    IF request.body.kind # "dict" THEN failed
    ELSE
    LET envelope == get_obj(request.body.envelope) IN
    IF envelope.t # "obj" THEN failed
    ELSE
    LET data_message == get_obj(envelope.dataMessage) IN
    IF data_message.t # "obj" THEN failed
    ELSE IF ~truthy(get(data_message.message))
    THEN [response |-> Resp(200, "ignored", "", <<>>, cors), calls |-> <<>>,
          raised |-> FALSE]
    ELSE
    LET group_info == get_obj(data_message.groupInfo) IN
    IF group_info.t # "obj" THEN failed
    ELSE
    LET message_data == [timestamp |-> get(envelope.timestamp),
                         source |-> get(envelope.source),
                         message |-> get(data_message.message),
                         group_id |-> get(group_info.groupId)]
        call == PublishMessage(encode(message_data), pubOk)
    IN
    IF ~pubOk
    THEN [response |-> Resp(500, "", "Internal server error", <<>>, cors),
          calls |-> <<call>>, raised |-> TRUE]
    ELSE [response |-> Resp(200, "success", "",
                            <<"Processed command: ">> \o message_data.message.v, cors),
          calls |-> <<call>>, raised |-> FALSE]

\* faulty variant: the method is not looked at after the OPTIONS answer
signal_webhook_any_method(request, pubOk) ==
    IF request.method = "OPTIONS"
    THEN [response |-> Resp(204, "", "", <<>>, PreflightHeaders), calls |-> <<>>]
    ELSE LET r == signal_webhook_try([request EXCEPT !.method = "POST"], pubOk)
         IN [response |-> r.response, calls |-> r.calls]

\* signal_webhook: the OPTIONS answer, then the try block; its except answers 500
signal_webhook(request, pubOk) ==
    IF request.method = "OPTIONS"
    THEN [response |-> Resp(204, "", "", <<>>, PreflightHeaders), calls |-> <<>>]
    ELSE LET r == signal_webhook_try(request, pubOk)
         IN [response |-> r.response, calls |-> r.calls]

IsAcked(c) == c.ok
Enqueued(calls) ==
    LET s == SelectSeq(calls, IsAcked) IN [i \in DOMAIN s |-> s[i].payload]

\* The requests sent to the webhook
WebhookTexts ==
    { <<>>, <<"h","i">>, <<" ","/","H","E","L","P"," ">>,
      T_stock \o <<" ","g","o","o","g","l">> }
WebhookMessages == {JStr(t) : t \in WebhookTexts} \cup {JAbsent, JNull, JNum("7")}
GroupInfos ==
    {NoGroupInfo, GroupInfo("null", JAbsent), GroupInfo("obj", JAbsent),
     GroupInfo("obj", JStr(G1))}
DataMessages ==
    {NoDataMessage, DataMessage("null", JAbsent, NoGroupInfo)}
    \cup {DataMessage("obj", m, gi) : m \in WebhookMessages, gi \in GroupInfos}
Envelopes ==
    {NoEnvelope, Envelope("null", JAbsent, NoDataMessage)}
    \cup {Envelope("obj", src, dm) : src \in {JStr(P1), JAbsent}, dm \in DataMessages}
Bodies ==
    {Body(k, NoEnvelope) : k \in {"none", "falsy", "nondict"}}
    \cup {Body("dict", env) : env \in Envelopes}
TextBody ==
    Body("dict", Envelope("obj", JStr(P1),
                          DataMessage("obj", JStr(<<"h","i">>), NoGroupInfo)))
WebhookRequests ==
    {Request("POST", b) : b \in Bodies}
    \cup {Request(m, b) : m \in {"GET", "OPTIONS", "PUT"},
                          b \in {Body("none", NoEnvelope), TextBody}}
NoRequest == Request("none", Body("none", NoEnvelope))

----------------------------------------------------------------------------
\* The signal-cli bridge: src/functions/signal-registration/main.py and
\* src/functions/signal-sender/main.py
\*
\* Both functions work on the same cloud resources: the bucket
\* '<project>-signal-configs' with its blobs, and the secret
\* 'signal-phone-number' with its versions.  A cloud state is the record
\*   bucket    whether the bucket exists
\*   blobs     the blob names stored in it
\*   secret    whether the secret exists
\*   versions  the payloads of its versions, the latest last
\* An archive's content is the CLI's own configuration, which only the CLI
\* reads; what the CLI then answers is an input of the model.
P2 == <<"+15550002">>
Code == <<"123456">>
Stderr == <<"Captcha required">>

temp_blob_name(phone_number) == [tier |-> "temp", phone |-> phone_number]
verified_blob_name(phone_number) == [tier |-> "verified", phone |-> phone_number]

Cloud(bucket, blobs, secret, versions) ==
    [bucket |-> bucket, blobs |-> blobs, secret |-> secret, versions |-> versions]

\* one call on a cloud client or on the CLI, and how it ended
Call(op, target, result) == [op |-> op, target |-> target, result |-> result]
Outcome(ok) == IF ok THEN "ok" ELSE "raised"

\* What the world outside answers during one invocation:
\*   cli       subprocess.run: "exit0", "nonzero" (stderr set), "timeout"
\*             (TimeoutExpired after 30 s), "oserror" (any other exception)
\*   createOk  bucket.create() can succeed if the bucket is missing
\*   uploadOk, downloadOk   the blob transfer can succeed
\*   secretOk  create_secret can succeed if the secret is missing
\*   addOk     add_secret_version can succeed
\*   accessOk  access_secret_version can succeed
Env(cli, createOk, uploadOk, downloadOk, secretOk, addOk, accessOk) ==
    [cli |-> cli, createOk |-> createOk, uploadOk |-> uploadOk,
     downloadOk |-> downloadOk, secretOk |-> secretOk, addOk |-> addOk,
     accessOk |-> accessOk]

\* subprocess.run(cmd, capture_output=True, text=True, timeout=30)
subprocess_run(cmd, phone_number, env) == Call(cmd, phone_number, env.cli)

\* faulty variant: a new registration discards the phone's verified archive
store_signal_config_resets_verified(cloud, phone_number, env) ==
    LET created == ~cloud.bucket /\ env.createOk
        bucket == cloud.bucket \/ created
        uploaded == bucket /\ env.uploadOk
    IN [cloud |-> [cloud EXCEPT !.bucket = bucket,
                                !.blobs = IF uploaded
                                          THEN (@ \ {verified_blob_name(phone_number)})
                                                 \cup {temp_blob_name(phone_number)}
                                          ELSE @],
        calls |-> <<Call("bucket.create", <<>>, Outcome(created)),
                    Call("upload", temp_blob_name(phone_number), Outcome(uploaded))>>,
        raised |-> FALSE]

\* store_signal_config: bucket.create() with its failure passed over, then the
\* upload of temp/<phone>/config.tar.gz; any failure is logged and dropped
store_signal_config(cloud, phone_number, env) ==
    LET created == ~cloud.bucket /\ env.createOk
        bucket == cloud.bucket \/ created
        uploaded == bucket /\ env.uploadOk
    IN [cloud |-> [cloud EXCEPT !.bucket = bucket,
                                !.blobs = IF uploaded
                                          THEN @ \cup {temp_blob_name(phone_number)}
                                          ELSE @],
        calls |-> <<Call("bucket.create", <<>>, Outcome(created)),
                    Call("upload", temp_blob_name(phone_number), Outcome(uploaded))>>,
        raised |-> FALSE]

\* restore_signal_config: the download of temp/<phone>/config.tar.gz; a
\* failure is logged and dropped
restore_signal_config(cloud, phone_number, env) ==
    LET downloaded == /\ cloud.bucket
                      /\ temp_blob_name(phone_number) \in cloud.blobs
                      /\ env.downloadOk
    IN [calls |-> <<Call("download", temp_blob_name(phone_number), Outcome(downloaded))>>,
        raised |-> FALSE]

\* faulty variant: the secret version is added before the archive is uploaded
store_verified_config_secret_first(cloud, phone_number, env) ==
    LET created == ~cloud.secret /\ env.secretOk
        secret == cloud.secret \/ created
        added == secret /\ env.addOk
        uploaded == added /\ cloud.bucket /\ env.uploadOk
    IN [cloud |-> [cloud EXCEPT !.blobs = IF uploaded
                                          THEN @ \cup {verified_blob_name(phone_number)}
                                          ELSE @,
                                !.secret = secret,
                                !.versions = IF added THEN Append(@, phone_number)
                                             ELSE @],
        calls |-> <<Call("create_secret", <<>>, Outcome(created)),
                    Call("add_secret_version", phone_number, Outcome(added))>>
                  \o (IF added
                      THEN <<Call("upload", verified_blob_name(phone_number),
                                  Outcome(uploaded))>>
                      ELSE <<>>),
        raised |-> FALSE]

\* store_verified_config: the upload of verified/<phone>/config.tar.gz, then
\* create_secret with its failure passed over, then add_secret_version; the
\* first failure ends the function, logged and dropped
store_verified_config(cloud, phone_number, env) ==
    LET uploaded == cloud.bucket /\ env.uploadOk
        created == ~cloud.secret /\ env.secretOk
        secret == cloud.secret \/ created
        added == secret /\ env.addOk
        upload == Call("upload", verified_blob_name(phone_number), Outcome(uploaded))
    IN IF ~uploaded
       THEN [cloud |-> cloud, calls |-> <<upload>>, raised |-> FALSE]
       ELSE [cloud |-> [cloud EXCEPT !.blobs = @ \cup {verified_blob_name(phone_number)},
                                     !.secret = secret,
                                     !.versions = IF added THEN Append(@, phone_number)
                                                  ELSE @],
             calls |-> <<upload,
                         Call("create_secret", <<>>, Outcome(created)),
                         Call("add_secret_version", phone_number, Outcome(added))>>,
             raised |-> FALSE]

\* str(e) of an exception that is neither a non-zero exit nor a timeout
ExcText == <<"[Errno 2] No such file or directory: 'java'">>

\* what a handler of the bridge hands back: its response, the cloud state it
\* leaves and the calls it made
Handled(response, cloud, calls) ==
    [response |-> response, cloud |-> cloud, calls |-> calls]

\* faulty variant: the configuration is stored whatever the CLI answered
register_number_always_stores(cloud, phone_number, env) ==
    LET run == subprocess_run("register", phone_number, env)
        stored == store_signal_config(cloud, phone_number, env)
    IN CASE env.cli = "exit0" ->
              Handled(Resp(200, "success", "",
                           <<"Verification code sent to ">> \o phone_number, {}),
                      stored.cloud, <<run>> \o stored.calls)
         [] env.cli = "nonzero" ->
              Handled(Resp(400, "error", "", <<"Registration failed: ">> \o Stderr, {}),
                      stored.cloud, <<run>> \o stored.calls)
         [] env.cli = "timeout" ->
              Handled(Resp(408, "error", "", <<"Registration timeout">>, {}),
                      stored.cloud, <<run>> \o stored.calls)
         [] OTHER ->
              Handled(Resp(500, "error", "", ExcText, {}), cloud, <<run>>)

\* register_number: the CLI's 'register --voice <phone>' and, on exit 0, the
\* storing of its configuration
register_number(cloud, phone_number, env) ==
    LET run == subprocess_run("register", phone_number, env) IN
    CASE env.cli = "exit0" ->
           LET stored == store_signal_config(cloud, phone_number, env) IN
           Handled(Resp(200, "success", "",
                        <<"Verification code sent to ">> \o phone_number, {}),
                   stored.cloud, <<run>> \o stored.calls)
      [] env.cli = "nonzero" ->
           Handled(Resp(400, "error", "", <<"Registration failed: ">> \o Stderr, {}),
                   cloud, <<run>>)
      [] env.cli = "timeout" ->
           Handled(Resp(408, "error", "", <<"Registration timeout">>, {}),
                   cloud, <<run>>)
      [] OTHER ->
           Handled(Resp(500, "error", "", ExcText, {}), cloud, <<run>>)

\* faulty variant: the verified configuration is stored whatever the CLI answered
verify_number_always_stores(cloud, phone_number, verification_code, env) ==
    LET restored == restore_signal_config(cloud, phone_number, env)
        run == subprocess_run("verify", phone_number, env)
        stored == store_verified_config(cloud, phone_number, env)
    IN CASE env.cli = "exit0" ->
              Handled(Resp(200, "success", "",
                           <<"Phone number ">> \o phone_number
                               \o <<" verified successfully">>, {}),
                      stored.cloud, restored.calls \o <<run>> \o stored.calls)
         [] env.cli = "nonzero" ->
              Handled(Resp(400, "error", "", <<"Verification failed: ">> \o Stderr, {}),
                      stored.cloud, restored.calls \o <<run>> \o stored.calls)
         [] env.cli = "timeout" ->
              Handled(Resp(408, "error", "", <<"Verification timeout">>, {}),
                      stored.cloud, restored.calls \o <<run>> \o stored.calls)
         [] OTHER ->
              Handled(Resp(500, "error", "", ExcText, {}), cloud,
                      restored.calls \o <<run>>)

\* verify_number: the restoring of the temporary configuration, the CLI's
\* 'verify <phone> <code>' and, on exit 0, the storing of the verified
\* configuration and of the phone number
verify_number(cloud, phone_number, verification_code, env) ==
    LET restored == restore_signal_config(cloud, phone_number, env)
        run == subprocess_run("verify", phone_number, env)
    IN
    IF restored.raised
    THEN Handled(Resp(500, "error", "", ExcText, {}), cloud, restored.calls)
    ELSE
    CASE env.cli = "exit0" ->
           LET stored == store_verified_config(cloud, phone_number, env) IN
           Handled(Resp(200, "success", "",
                        <<"Phone number ">> \o phone_number
                            \o <<" verified successfully">>, {}),
                   stored.cloud, restored.calls \o <<run>> \o stored.calls)
      [] env.cli = "nonzero" ->
           Handled(Resp(400, "error", "", <<"Verification failed: ">> \o Stderr, {}),
                   cloud, restored.calls \o <<run>>)
      [] env.cli = "timeout" ->
           Handled(Resp(408, "error", "", <<"Verification timeout">>, {}),
                   cloud, restored.calls \o <<run>>)
      [] OTHER ->
           Handled(Resp(500, "error", "", ExcText, {}), cloud,
                   restored.calls \o <<run>>)

\* The JSON body of a request to the registration endpoint: kind as for the
\* webhook ("none": get_json(silent=True) gives None; "nondict": a JSON value
\* without .get; "dict": an object with these keys)
RegistrationBody(kind, action, phone_number, verification_code) ==
    [kind |-> kind, action |-> action, phone_number |-> phone_number,
     verification_code |-> verification_code]

\* signal_registration: the POST dispatch on 'action', the GET health check,
\* 405 for any other method; an exception is answered 500
signal_registration(request, cloud, env) ==
    IF request.method = "POST"
    THEN IF request.body.kind # "dict"
         THEN Handled(Resp(500, "", "Internal server error", <<>>, {}), cloud, <<>>)
         ELSE
         LET action == get(request.body.action)
             phone_number == get(request.body.phone_number)
             verification_code == get(request.body.verification_code)
         IN
         IF ~truthy(phone_number)
         THEN Handled(Resp(400, "", "phone_number is required", <<>>, {}), cloud, <<>>)
         ELSE IF action = JStr(<<"register">>)
         THEN register_number(cloud, phone_number.v, env)
         ELSE IF action = JStr(<<"verify">>)
         THEN IF ~truthy(verification_code)
              THEN Handled(Resp(400, "", "verification_code is required", <<>>, {}),
                           cloud, <<>>)
              ELSE verify_number(cloud, phone_number.v, verification_code.v, env)
         ELSE Handled(Resp(400, "", "Invalid action. Use \"register\" or \"verify\"",
                           <<>>, {}), cloud, <<>>)
    ELSE IF request.method = "GET"
    THEN Handled(Resp(200, "healthy", "", <<>>, {}), cloud, <<>>)
    ELSE Handled(Resp(405, "", "Method not allowed", <<>>, {}), cloud, <<>>)

\* get_registered_phone_number: the payload of the secret's latest version,
\* None when the access fails for any reason
get_registered_phone_number(cloud, env) ==
    LET accessed == cloud.secret /\ cloud.versions # <<>> /\ env.accessOk IN
    [phone_number |-> IF accessed THEN JStr(cloud.versions[Len(cloud.versions)])
                      ELSE JNull,
     calls |-> <<Call("access_secret_version", <<>>, Outcome(accessed))>>]

\* faulty variant: a failed download is logged and dropped
restore_verified_config_no_raise(cloud, phone_number, env) ==
    LET downloaded == /\ cloud.bucket
                      /\ verified_blob_name(phone_number) \in cloud.blobs
                      /\ env.downloadOk
    IN [calls |-> <<Call("download", verified_blob_name(phone_number),
                         Outcome(downloaded))>>,
        raised |-> FALSE]

\* restore_verified_config: the download of verified/<phone>/config.tar.gz; a
\* failure is logged and raised again
restore_verified_config(cloud, phone_number, env) ==
    LET downloaded == /\ cloud.bucket
                      /\ verified_blob_name(phone_number) \in cloud.blobs
                      /\ env.downloadOk
    IN [calls |-> <<Call("download", verified_blob_name(phone_number),
                         Outcome(downloaded))>>,
        raised |-> ~downloaded]

\* send_signal_message: the sender's number from the secret, the restoring of
\* its verified configuration, then the CLI's 'send' to the group if there is
\* one, to the recipient otherwise
send_signal_message(cloud, recipient, message, group_id, env) ==
    LET registered == get_registered_phone_number(cloud, env) IN
    IF ~truthy(registered.phone_number)
    THEN Handled(Resp(500, "", "No registered Signal number found", <<>>, {}),
                 cloud, registered.calls)
    ELSE
    LET phone_number == registered.phone_number.v
        restored == restore_verified_config(cloud, phone_number, env)
        target == IF truthy(group_id) THEN group_id.v ELSE recipient.v
        run == subprocess_run("send", target, env)
        calls == registered.calls \o restored.calls \o <<run>>
    IN
    IF restored.raised
    THEN Handled(Resp(500, "error", "", ExcText, {}), cloud,
                 registered.calls \o restored.calls)
    ELSE
    CASE env.cli = "exit0" ->
           Handled(Resp(200, "success", "", <<"Message sent successfully">>, {}),
                   cloud, calls)
      [] env.cli = "nonzero" ->
           Handled(Resp(400, "error", "", <<"Send failed: ">> \o Stderr, {}),
                   cloud, calls)
      [] env.cli = "timeout" ->
           Handled(Resp(408, "error", "", <<"Send timeout">>, {}), cloud, calls)
      [] OTHER ->
           Handled(Resp(500, "error", "", ExcText, {}), cloud, calls)

\* The JSON body of a request to the sender endpoint, kind as above
SenderBody(kind, recipient, message, group_id) ==
    [kind |-> kind, recipient |-> recipient, message |-> message,
     group_id |-> group_id]

\* signal_sender: the POST checks of 'message' and of the addressee, the GET
\* health check, 405 for any other method; an exception is answered 500
signal_sender(request, cloud, env) ==
    IF request.method = "POST"
    THEN IF request.body.kind # "dict"
         THEN Handled(Resp(500, "", "Internal server error", <<>>, {}), cloud, <<>>)
         ELSE
         LET recipient == get(request.body.recipient)
             message == get(request.body.message)
             group_id == get(request.body.group_id)
         IN
         IF ~truthy(message)
         THEN Handled(Resp(400, "", "message is required", <<>>, {}), cloud, <<>>)
         ELSE IF ~truthy(recipient) /\ ~truthy(group_id)
         THEN Handled(Resp(400, "", "Either recipient or group_id is required",
                           <<>>, {}), cloud, <<>>)
         ELSE send_signal_message(cloud, recipient, message, group_id, env)
    ELSE IF request.method = "GET"
    THEN Handled(Resp(200, "healthy", "", <<>>, {}), cloud, <<>>)
    ELSE Handled(Resp(405, "", "Method not allowed", <<>>, {}), cloud, <<>>)

\* The requests and the answers of the world the bridge is run on
Phones == {P1, P2}
RegistrationBodies ==
    {RegistrationBody(k, JAbsent, JAbsent, JAbsent) : k \in {"none", "nondict"}}
    \cup {RegistrationBody("dict", a, p, c) :
            a \in {JAbsent, JStr(<<"register">>), JStr(<<"verify">>), JStr(<<"status">>)},
            p \in {JAbsent, JStr(<<>>)} \cup {JStr(x) : x \in Phones},
            c \in {JAbsent, JStr(Code)}}
RegisterBody == RegistrationBody("dict", JStr(<<"register">>), JStr(P1), JAbsent)
RegistrationRequests ==
    {Request("POST", b) : b \in RegistrationBodies}
    \cup {Request(m, b) : m \in {"GET", "PUT"},
                          b \in {RegistrationBody("none", JAbsent, JAbsent, JAbsent),
                                 RegisterBody}}
SenderBodies ==
    {SenderBody(k, JAbsent, JAbsent, JAbsent) : k \in {"none", "nondict"}}
    \cup {SenderBody("dict", r, m, g) :
            r \in {JAbsent, JStr(P2)},
            m \in {JAbsent, JStr(<<>>), JStr(<<"h","i">>)},
            g \in {JAbsent, JStr(G1)}}
SendBody == SenderBody("dict", JStr(P2), JStr(<<"h","i">>), JAbsent)
SenderRequests ==
    {Request("POST", b) : b \in SenderBodies}
    \cup {Request(m, b) : m \in {"GET", "PUT"},
                          b \in {SenderBody("none", JAbsent, JAbsent, JAbsent), SendBody}}

CliOutcomes == {"exit0", "nonzero", "timeout", "oserror"}
Envs ==
    {Env(c, cr, up, dn, se, ad, ac) :
        c \in CliOutcomes, cr \in BOOLEAN, up \in BOOLEAN, dn \in BOOLEAN,
        se \in BOOLEAN, ad \in BOOLEAN, ac \in BOOLEAN}
\* an invocation only meets the answers to the calls its request can lead to
Registers(request) ==
    /\ request.method = "POST" /\ request.body.kind = "dict"
    /\ truthy(get(request.body.phone_number))
    /\ request.body.action = JStr(<<"register">>)
Verifies(request) ==
    /\ request.method = "POST" /\ request.body.kind = "dict"
    /\ truthy(get(request.body.phone_number))
    /\ request.body.action = JStr(<<"verify">>)
    /\ truthy(get(request.body.verification_code))
Sends(request) ==
    /\ request.method = "POST" /\ request.body.kind = "dict"
    /\ truthy(get(request.body.message))
    /\ truthy(get(request.body.recipient)) \/ truthy(get(request.body.group_id))
RegistrationEnvs(request) ==
    {env \in Envs :
        /\ env.accessOk
        /\ Registers(request) => env.downloadOk /\ env.secretOk /\ env.addOk
        /\ Verifies(request) => env.createOk
        /\ ~Registers(request) /\ ~Verifies(request) =>
             /\ env.cli = "exit0" /\ env.createOk /\ env.uploadOk
             /\ env.downloadOk /\ env.secretOk /\ env.addOk}
SenderEnvs(request) ==
    {env \in Envs :
        /\ env.createOk /\ env.uploadOk /\ env.secretOk /\ env.addOk
        /\ ~Sends(request) => env.cli = "exit0" /\ env.downloadOk /\ env.accessOk}

----------------------------------------------------------------------------
\* The quote fetch handler: src/functions/stock-handler/main.py
\*
\* Prices are integers.  A quotient is kept exact, as a fraction in lowest
\* terms with a positive denominator; the rounding of Python's floats is not
\* modelled.
RECURSIVE gcd(_, _)
gcd(a, b) == IF b = 0 THEN a ELSE gcd(b, a % b)
abs(n) == IF n < 0 THEN -n ELSE n
Rat(n, d) ==
    LET g == gcd(abs(n), abs(d))
        s == IF d < 0 THEN -1 ELSE 1
    IN [n |-> s * (n \div g), d |-> s * (d \div g)]
truediv(a, b) == Rat(a, b)
mul(r, k) == Rat(r.n * k, r.d)

\* a key of the provider's info: missing, null, or a number
NoNumber == [t |-> "absent", v |-> 0]
NullNumber == [t |-> "null", v |-> 0]
Number(v) == [t |-> "num", v |-> v]

\* What the quote provider answers for a ticker: the lookup raises, or it
\* gives the price history (empty, or with close and volume as its last row)
\* and the info keys previousClose, longName, marketCap and forwardPE.
Provider(raises, empty, close, previousClose, longName, marketCap, forwardPE) ==
    [raises |-> raises, empty |-> empty, close |-> close, volume |-> 1234567,
     previousClose |-> previousClose, longName |-> longName,
     marketCap |-> marketCap, forwardPE |-> forwardPE]

NoData == [symbol |-> <<>>, name |-> <<>>, price |-> 0, change |-> 0,
           change_percent |-> Rat(0, 1), volume |-> 0,
           market_cap |-> NoNumber, pe_ratio |-> NoNumber]
LookupErrorText == <<"HTTPSConnectionPool: Max retries exceeded">>
TypeErrorText == <<"unsupported operand type(s) for -: 'float' and 'NoneType'">>
Failure(error) == [success |-> FALSE, error |-> error, data |-> NoData]

\* faulty variant: the change is taken relative to the current price
get_stock_data_relative_to_current(ticker, provider) ==
    IF provider.raises THEN Failure(LookupErrorText)
    ELSE IF provider.empty THEN Failure(<<"No data found for ticker">>)
    ELSE
    LET current_price == provider.close
        prev_close == get_default(provider.previousClose, Number(current_price))
    IN
    IF prev_close.t = "null" THEN Failure(TypeErrorText)
    ELSE
    LET change == current_price - prev_close.v
        change_percent == IF current_price # 0
                          THEN mul(truediv(change, current_price), 100)
                          ELSE Rat(0, 1)
    IN [success |-> TRUE, error |-> <<>>,
        data |-> [symbol |-> ticker,
                  name |-> get_default(provider.longName, JStr(ticker)).v,
                  price |-> current_price,
                  change |-> change,
                  change_percent |-> change_percent,
                  volume |-> provider.volume,
                  market_cap |-> get(provider.marketCap),
                  pe_ratio |-> get(provider.forwardPE)]]

\* get_stock_data: the last close of the history against the provider's
\* previousClose (the last close itself when the key is missing); any
\* exception is turned into a failure carrying its text
get_stock_data(ticker, provider) ==
    IF provider.raises THEN Failure(LookupErrorText)
    ELSE IF provider.empty THEN Failure(<<"No data found for ticker">>)
    ELSE
    LET current_price == provider.close
        prev_close == get_default(provider.previousClose, Number(current_price))
    IN
    IF prev_close.t = "null" THEN Failure(TypeErrorText)
    ELSE
    LET change == current_price - prev_close.v
        change_percent == IF prev_close.v # 0
                          THEN mul(truediv(change, prev_close.v), 100)
                          ELSE Rat(0, 1)
    IN [success |-> TRUE, error |-> <<>>,
        data |-> [symbol |-> ticker,
                  name |-> get_default(provider.longName, JStr(ticker)).v,
                  price |-> current_price,
                  change |-> change,
                  change_percent |-> change_percent,
                  volume |-> provider.volume,
                  market_cap |-> get(provider.marketCap),
                  pe_ratio |-> get(provider.forwardPE)]]

\* str(n) of a natural number, and its digits in groups of three (format ',')
DigitChars == <<"0","1","2","3","4","5","6","7","8","9">>
RECURSIVE digits(_)
digits(n) ==
    IF n < 10 THEN <<DigitChars[n + 1]>>
    ELSE digits(n \div 10) \o <<DigitChars[(n % 10) + 1]>>
RECURSIVE zfill(_, _)
zfill(s, width) == IF Len(s) >= width THEN s ELSE zfill(<<"0">> \o s, width)
RECURSIVE thousands(_)
thousands(n) ==
    IF n < 1000 THEN digits(n)
    ELSE thousands(n \div 1000) \o <<",">> \o zfill(digits(n % 1000), 3)
RECURSIVE pow10(_)
pow10(k) == IF k = 0 THEN 1 ELSE 10 * pow10(k - 1)

\* format(x, '.<places>f'): x rounded to the nearest multiple of 10^-places,
\* a tie going to the even one; the sign is that of x
fixed(r, places) ==
    LET scaled == abs(r.n) * pow10(places)
        q == scaled \div r.d
        rest == scaled % r.d
        up == 2 * rest > r.d \/ (2 * rest = r.d /\ q % 2 = 1)
        m == IF up THEN q + 1 ELSE q
    IN (IF r.n < 0 THEN <<"-">> ELSE <<>>)
       \o digits(m \div pow10(places)) \o <<".">>
       \o zfill(digits(m % pow10(places)), places)

\* the pieces of the message that are not plain ASCII, by name
ChartEmoji == <<"(chart)">>
MoneyEmoji == <<"(money-bag)">>
GreenEmoji == <<"(green-circle)">>
RedEmoji == <<"(red-circle)">>
BarsEmoji == <<"(bar-chart)">>
OfficeEmoji == <<"(office)">>
ClockEmoji == <<"(alarm-clock)">>
CrossEmoji == <<"(cross-mark)">>

\* faulty variant: the wall clock is written into the price line
format_stock_message_timed_price(ticker, data, now) ==
    ChartEmoji \o <<" ">> \o data.name \o <<" ", "(">> \o data.symbol
      \o <<")", "\n", "\n">>
    \o MoneyEmoji \o <<" Price: $">> \o fixed(Rat(data.price, 1), 2)
      \o <<" at ">> \o now \o <<"\n">>
    \o BarsEmoji \o <<" Volume: ">> \o thousands(data.volume)
    \o <<"\n", "\n">> \o ClockEmoji \o <<" Updated: ">> \o now \o <<" UTC">>

\* format_stock_message: the quote as text, stamped with the wall clock;
\* now is datetime.now().strftime('%H:%M:%S')
format_stock_message(ticker, data, now) ==
    LET change_emoji == IF data.change >= 0 THEN GreenEmoji ELSE RedEmoji
        change_sign == IF data.change >= 0 THEN <<"+">> ELSE <<>>
        head == ChartEmoji \o <<" ">> \o data.name \o <<" ", "(">> \o data.symbol
                  \o <<")", "\n", "\n">>
                \o MoneyEmoji \o <<" Price: $">> \o fixed(Rat(data.price, 1), 2)
                  \o <<"\n">>
                \o change_emoji \o <<" Change: ">> \o change_sign \o <<"$">>
                  \o fixed(Rat(data.change, 1), 2) \o <<" ", "(">> \o change_sign
                  \o fixed(data.change_percent, 2) \o <<"%", ")", "\n">>
                \o BarsEmoji \o <<" Volume: ">> \o thousands(data.volume)
        cap == IF data.market_cap.t = "num" /\ data.market_cap.v # 0
               THEN <<"\n">> \o OfficeEmoji \o <<" Market Cap: $">>
                      \o fixed(Rat(data.market_cap.v, 1000000000), 1) \o <<"B">>
               ELSE <<>>
        pe == IF data.pe_ratio.t = "num" /\ data.pe_ratio.v # 0
              THEN <<"\n">> \o BarsEmoji \o <<" P/E Ratio: ">>
                     \o fixed(Rat(data.pe_ratio.v, 1), 2)
              ELSE <<>>
    IN head \o cap \o pe
         \o <<"\n", "\n">> \o ClockEmoji \o <<" Updated: ">> \o now \o <<" UTC">>

\* send_signal_response: the reply is logged, nothing is sent yet
send_signal_response(sender, message, group_id) ==
    [sender |-> sender, message |-> message, group_id |-> group_id]

\* The Pub/Sub event of a StockRequest: enc "ok" when the data decodes to the
\* JSON object request, "bad" when the base64 or JSON decoding raises
StockEvent(enc, sender, ticker, group_id) ==
    [enc |-> enc,
     request |-> [sender |-> sender, ticker |-> ticker, group_id |-> group_id]]

\* faulty variant: a failed fetch is only logged, no reply is handed over
handle_stock_request_silent_on_failure(cloud_event, provider, now) ==
    IF cloud_event.enc # "ok"
    THEN [replies |-> <<>>, stock_info |-> Failure(<<>>), errorLogged |-> TRUE,
          outcome |-> "returned"]
    ELSE
    LET sender == cloud_event.request.sender
        ticker == cloud_event.request.ticker
        group_id == cloud_event.request.group_id
        stock_info == get_stock_data(ticker, provider)
    IN IF stock_info.success
       THEN [replies |-> <<send_signal_response(
                             sender, format_stock_message(ticker, stock_info.data, now),
                             group_id)>>,
             stock_info |-> stock_info, errorLogged |-> FALSE, outcome |-> "returned"]
       ELSE [replies |-> <<>>, stock_info |-> stock_info, errorLogged |-> TRUE,
             outcome |-> "returned"]

\* handle_stock_request: decode, fetch, format the quote or the error text,
\* hand the reply to send_signal_response; any exception is logged and dropped
handle_stock_request(cloud_event, provider, now) ==
    IF cloud_event.enc # "ok"
    THEN [replies |-> <<>>, stock_info |-> Failure(<<>>), errorLogged |-> TRUE,
          outcome |-> "returned"]
    ELSE
    LET sender == cloud_event.request.sender
        ticker == cloud_event.request.ticker
        group_id == cloud_event.request.group_id
        stock_info == get_stock_data(ticker, provider)
        message == IF stock_info.success
                   THEN format_stock_message(ticker, stock_info.data, now)
                   ELSE CrossEmoji \o <<" Error fetching data for ">> \o ticker
                          \o <<": ">> \o stock_info.error
    IN [replies |-> <<send_signal_response(sender, message, group_id)>>,
        stock_info |-> stock_info, errorLogged |-> FALSE, outcome |-> "returned"]

\* The deliveries and the provider answers the quote handler is run on
GOOGL == <<"G","O","O","G","L">>
Prices == {0, 100, 110}
PreviousCloses == {NoNumber, NullNumber} \cup {Number(p) : p \in Prices}
Providers ==
    {Provider(TRUE, TRUE, 0, NoNumber, JAbsent, NoNumber, NoNumber),
     Provider(FALSE, TRUE, 0, NoNumber, JAbsent, NoNumber, NoNumber)}
    \cup {Provider(FALSE, FALSE, c, pc, JAbsent, NoNumber, NoNumber) :
            c \in Prices, pc \in PreviousCloses}
    \cup {Provider(FALSE, FALSE, 110, pc, JStr(<<"Alphabet Inc.">>),
                   Number(1500000000), Number(25)) : pc \in PreviousCloses}
NoProvider == Provider(TRUE, TRUE, 0, NoNumber, JAbsent, NoNumber, NoNumber)
StockEvents ==
    {StockEvent("ok", JStr(P1), GOOGL, JStr(G1)),
     StockEvent("ok", JStr(P2), <<"F">>, JNull),
     StockEvent("bad", JNull, <<>>, JNull)}
NoStockEvent == StockEvent("none", JNull, <<>>, JNull)
Times == {<<"09:30:00">>, <<"16:00:00">>}

----------------------------------------------------------------------------
Init ==
    /\ signalMessages = <<>>
    /\ stockRequests = <<>>
    /\ commands = <<>>
    /\ responses = <<>>
    /\ pm = [called |-> FALSE, event |-> NoEvent, trace |-> <<>>,
             outcome |-> "none", errorLogged |-> FALSE]
    /\ wh = [called |-> FALSE, request |-> NoRequest,
             response |-> Resp(0, "", "", <<>>, {}), calls |-> <<>>]
    /\ nDeliveries = 0
    /\ nRequests = 0
    /\ resources = Cloud(FALSE, {}, FALSE, <<>>)
    /\ br = [called |-> FALSE, endpoint |-> "none", request |-> NoRequest,
             response |-> Resp(0, "", "", <<>>, {}), calls |-> <<>>]
    /\ nBridgeCalls = 0
    /\ stockReplies = <<>>
    /\ handled = <<>>
    /\ sh = [called |-> FALSE, event |-> NoStockEvent, provider |-> NoProvider,
             replies |-> <<>>, stock_info |-> Failure(<<>>), errorLogged |-> FALSE,
             outcome |-> "none"]
    /\ nStockDeliveries = 0
    /\ ackedMessages = {}
    /\ ackedRequests = {}
    /\ redelivered = {}

\* process_message on every event the trigger can hand it, with what the
\* broker (pubOk) and the document store (storeOk) answer if they are called
process_message_on ==
    [ev \in RouterEvents, pubOk \in BOOLEAN, storeOk \in BOOLEAN |->
        process_message(ev, pubOk, storeOk)]

\* One invocation of process_message by the Pub/Sub trigger on event ev.
ProcessMessage(ev, pubOk, storeOk) ==
    /\ nDeliveries < MaxDeliveries
    /\ LET r == process_message_on[ev, pubOk, storeOk] IN
        /\ pm' = [called |-> TRUE, event |-> ev, trace |-> r.trace,
                  outcome |-> r.outcome, errorLogged |-> r.errorLogged]
        /\ stockRequests' = stockRequests \o Published(r.trace)
        /\ commands' = commands \o Stored(r.trace)
        /\ responses' = responses \o Replied(r.trace)
    /\ nDeliveries' = nDeliveries + 1
    /\ UNCHANGED <<webhookVars, bridgeVars, stockVars, pipelineVars>>

RouterNext ==
    \E ev \in RouterEvents, pubOk \in BOOLEAN, storeOk \in BOOLEAN :
        ProcessMessage(ev, pubOk, storeOk)

RouterSpec == Init /\ [][RouterNext]_vars

\* signal_webhook on every request, with what the broker answers (pubOk) if
\* it is called
signal_webhook_on ==
    [request \in WebhookRequests, pubOk \in BOOLEAN |-> signal_webhook(request, pubOk)]

\* One HTTP request to signal_webhook.
SignalWebhook(request, pubOk) ==
    /\ nRequests < MaxRequests
    /\ LET r == signal_webhook_on[request, pubOk] IN
        /\ wh' = [called |-> TRUE, request |-> request,
                  response |-> r.response, calls |-> r.calls]
        /\ signalMessages' = signalMessages \o Enqueued(r.calls)
    /\ nRequests' = nRequests + 1
    /\ UNCHANGED <<routerVars, bridgeVars, stockVars, pipelineVars>>

WebhookNext ==
    \E request \in WebhookRequests, pubOk \in BOOLEAN : SignalWebhook(request, pubOk)

WebhookSpec == Init /\ [][WebhookNext]_vars


\* One HTTP request to signal_registration.
SignalRegistration(request, env) ==
    /\ nBridgeCalls < MaxBridgeCalls
    /\ LET r == signal_registration(request, resources, env) IN
        /\ br' = [called |-> TRUE, endpoint |-> "registration", request |-> request,
                  response |-> r.response, calls |-> r.calls]
        /\ resources' = r.cloud
    /\ nBridgeCalls' = nBridgeCalls + 1
    /\ UNCHANGED <<routerVars, webhookVars, stockVars, pipelineVars>>

\* One HTTP request to signal_sender.
SignalSender(request, env) ==
    /\ nBridgeCalls < MaxBridgeCalls
    /\ LET r == signal_sender(request, resources, env) IN
        /\ br' = [called |-> TRUE, endpoint |-> "sender", request |-> request,
                  response |-> r.response, calls |-> r.calls]
        /\ resources' = r.cloud
    /\ nBridgeCalls' = nBridgeCalls + 1
    /\ UNCHANGED <<routerVars, webhookVars, stockVars, pipelineVars>>

\* signal_registration and signal_sender on every request, cloud state and
\* answer of the outside world
BridgeNext ==
    \/ \E request \in RegistrationRequests :
         \E env \in RegistrationEnvs(request) : SignalRegistration(request, env)
    \/ \E request \in SenderRequests :
         \E env \in SenderEnvs(request) : SignalSender(request, env)

BridgeSpec == Init /\ [][BridgeNext]_vars

\* handle_stock_request on every delivery, provider answer and wall clock
handle_stock_request_on ==
    [ev \in StockEvents, provider \in Providers, now \in Times |->
        handle_stock_request(ev, provider, now)]

\* One invocation of handle_stock_request by the Pub/Sub trigger on event ev.
HandleStockRequest(ev, provider, now) ==
    /\ LET r == handle_stock_request_on[ev, provider, now] IN
        /\ sh' = [called |-> TRUE, event |-> ev, provider |-> provider,
                  replies |-> r.replies, stock_info |-> r.stock_info,
                  errorLogged |-> r.errorLogged, outcome |-> r.outcome]
        /\ handled' = Append(handled, sh')
        /\ stockReplies' = stockReplies \o r.replies
    /\ nStockDeliveries' = nStockDeliveries + 1
    /\ UNCHANGED <<routerVars, webhookVars, bridgeVars, pipelineVars>>

StockNext ==
    /\ nStockDeliveries < MaxStockDeliveries
    /\ \E ev \in StockEvents, provider \in Providers, now \in Times :
         HandleStockRequest(ev, provider, now)

StockSpec == Init /\ [][StockNext]_vars

\* The queue delivers at least once: longer runs of deliveries, the same
\* request coming again between others, over a few provider answers
RedeliveryProviders ==
    {Provider(TRUE, TRUE, 0, NoNumber, JAbsent, NoNumber, NoNumber),
     Provider(FALSE, FALSE, 110, NullNumber, JAbsent, NoNumber, NoNumber),
     Provider(FALSE, FALSE, 110, Number(100), JStr(<<"Alphabet Inc.">>),
              Number(1500000000), Number(25))}

RedeliveryNext ==
    /\ nStockDeliveries < MaxRedeliveries
    /\ \E ev \in StockEvents, provider \in RedeliveryProviders, now \in Times :
         HandleStockRequest(ev, provider, now)

RedeliverySpec == Init /\ [][RedeliveryNext]_vars

----------------------------------------------------------------------------
\* The pipeline: webhook -> topic 'signal-messages' -> process_message ->
\* topic 'stock-requests' -> handle_stock_request.
\*
\* Both triggers are Pub/Sub push subscriptions: a published message is
\* delivered until the broker sees the function return, and it is delivered
\* again when that acknowledgment is lost (at least once).  A run loses at
\* most one acknowledgment.
PipelineBody(source, text, groupInfo) ==
    Body("dict", Envelope("obj", source, DataMessage("obj", JStr(text), groupInfo)))
PipelineRequests ==
    {Request("POST", PipelineBody(JStr(P1), T_stock \o <<" ","g","o","o","g","l">>,
                                  GroupInfo("obj", JStr(G1)))),
     Request("POST", PipelineBody(JAbsent,
                                  <<"/","S","t","o","c","k","\t","F"," ","\n","x","\n">>,
                                  NoGroupInfo))}
PipelineProviders ==
    {Provider(TRUE, TRUE, 0, NoNumber, JAbsent, NoNumber, NoNumber),
     Provider(FALSE, FALSE, 110, Number(100), JAbsent, NoNumber, NoNumber)}

PipelineTimes == {<<"09:30:00">>}

\* the three functions on everything the pipeline can hand them
RangeOf(q) == {q[k] : k \in DOMAIN q}
pipeline_signal_webhook_on ==
    [request \in PipelineRequests, pubOk \in BOOLEAN |-> signal_webhook(request, pubOk)]
PipelineMessages ==
    UNION {RangeOf(Enqueued(pipeline_signal_webhook_on[request, TRUE].calls)) :
             request \in PipelineRequests}
pipeline_process_message_on ==
    [ev \in PipelineMessages, storeOk \in BOOLEAN |-> process_message(ev, TRUE, storeOk)]
PipelineStockEvents ==
    {[enc |-> "ok", request |-> q] :
        q \in UNION {RangeOf(Published(pipeline_process_message_on[ev, TRUE].trace)) :
                       ev \in PipelineMessages}}
pipeline_handle_stock_request_on ==
    [ev \in PipelineStockEvents, provider \in PipelineProviders, now \in PipelineTimes |->
        handle_stock_request(ev, provider, now)]

\* One HTTP POST to signal_webhook while the router and the quote handler run.
PostToWebhook(request, pubOk) ==
    /\ nRequests < MaxPosts
    /\ LET r == pipeline_signal_webhook_on[request, pubOk] IN
        /\ wh' = [called |-> TRUE, request |-> request,
                  response |-> r.response, calls |-> r.calls]
        /\ signalMessages' = signalMessages \o Enqueued(r.calls)
    /\ nRequests' = nRequests + 1
    /\ UNCHANGED <<routerVars, bridgeVars, stockVars, pipelineVars>>

\* The broker pushes message i of 'signal-messages' to process_message, whose
\* publish succeeds; ack tells whether the broker sees the return.  The
\* pipeline is run with the usage-log store answering (storeOk).
DeliverSignalMessage(i, storeOk, ack) ==
    /\ i \in DOMAIN signalMessages /\ i \notin ackedMessages
    /\ ~ack => redelivered = {}
    /\ LET ev == signalMessages[i]
           r == pipeline_process_message_on[ev, storeOk]
       IN /\ pm' = [called |-> TRUE, event |-> ev, trace |-> r.trace,
                    outcome |-> r.outcome, errorLogged |-> r.errorLogged]
          /\ stockRequests' = stockRequests \o Published(r.trace)
          /\ commands' = commands \o Stored(r.trace)
          /\ responses' = responses \o Replied(r.trace)
          /\ ackedMessages' = IF ack /\ r.outcome = "returned"
                              THEN ackedMessages \cup {i} ELSE ackedMessages
    /\ nDeliveries' = nDeliveries + 1
    /\ redelivered' = IF ack THEN redelivered
                      ELSE redelivered \cup {<<"signal-messages", i>>}
    /\ UNCHANGED <<webhookVars, bridgeVars, stockVars, ackedRequests>>

\* The broker pushes StockRequest i of 'stock-requests' to handle_stock_request.
DeliverStockRequest(i, provider, now, ack) ==
    /\ i \in DOMAIN stockRequests /\ i \notin ackedRequests
    /\ ~ack => redelivered = {}
    /\ LET ev == [enc |-> "ok", request |-> stockRequests[i]]
           r == pipeline_handle_stock_request_on[ev, provider, now]
       IN /\ sh' = [called |-> TRUE, event |-> ev, provider |-> provider,
                    replies |-> r.replies, stock_info |-> r.stock_info,
                    errorLogged |-> r.errorLogged, outcome |-> r.outcome]
          /\ handled' = Append(handled, sh')
          /\ stockReplies' = stockReplies \o r.replies
          /\ ackedRequests' = IF ack /\ r.outcome = "returned"
                              THEN ackedRequests \cup {i} ELSE ackedRequests
    /\ nStockDeliveries' = nStockDeliveries + 1
    /\ redelivered' = IF ack THEN redelivered
                      ELSE redelivered \cup {<<"stock-requests", i>>}
    /\ UNCHANGED <<routerVars, webhookVars, bridgeVars, ackedMessages>>

PipelineNext ==
    \/ \E request \in PipelineRequests, pubOk \in BOOLEAN : PostToWebhook(request, pubOk)
    \/ \E i \in DOMAIN signalMessages, ack \in BOOLEAN :
         DeliverSignalMessage(i, TRUE, ack)
    \/ \E i \in DOMAIN stockRequests, provider \in PipelineProviders,
          now \in PipelineTimes, ack \in BOOLEAN :
         DeliverStockRequest(i, provider, now, ack)

\* a pending message is pushed again and again until it is acknowledged
PipelineFairness ==
    /\ WF_vars(\E i \in DOMAIN signalMessages : DeliverSignalMessage(i, TRUE, TRUE))
    /\ WF_vars(\E i \in DOMAIN stockRequests, provider \in PipelineProviders,
                  now \in PipelineTimes :
                  DeliverStockRequest(i, provider, now, TRUE))

Spec == Init /\ [][PipelineNext]_vars /\ PipelineFairness

----------------------------------------------------------------------------
\* Properties of the command router

UpperAZ == {Uppers[i] : i \in DOMAIN Uppers}
IsTicker(t) == Len(t) \in 1..5 /\ \A i \in 1..Len(t) : t[i] \in UpperAZ

IsPublishCall(x) == x.e = "publish"
IsLogCall(x) == x.e = "log"
IsValidationReply(x) == x.e = "reply" /\ x.text \in {UsageText, InvalidTickerText}
PublishCalls(trace) == SelectSeq(trace, IsPublishCall)
LogCalls(trace) == SelectSeq(trace, IsLogCall)
Replies(trace) == SelectSeq(trace, IsReply)
ValidationReplies(trace) == SelectSeq(trace, IsValidationReply)
AllOk(trace) == \A i \in DOMAIN trace : trace[i].ok

\* the event carries a text (a missing message field reads as '')
IsTextEvent(ev) == ev.enc = "ok" /\ ev.msg.message.t \in {"str", "absent"}
TextOf(ev) == ev.msg.message.v
SourceOf(ev) == IF ev.msg.source.t = "str" THEN ev.msg.source ELSE JNull
GroupOf(ev) == IF ev.msg.group_id.t = "str" THEN ev.msg.group_id ELSE JNull
HasGroup(ev) == ev.msg.group_id.t = "str" /\ ev.msg.group_id.v # <<>>

\* the event is a command: its text, stripped, starts with '/'
IsCommandEvent(ev) == IsTextEvent(ev) /\ startswith(strip(TextOf(ev)), "/")
TokensOf(ev) == split(strip(TextOf(ev)))
NameOf(ev) == lower(TokensOf(ev)[1])
ArgsOf(ev) == Tail(TokensOf(ev))
IsStockEvent(ev) == IsCommandEvent(ev) /\ NameOf(ev) = T_stock
IsHelpEvent(ev) == IsCommandEvent(ev) /\ NameOf(ev) = <<"/","h","e","l","p">>
IsUnknownEvent(ev) == IsCommandEvent(ev) /\ ~IsStockEvent(ev) /\ ~IsHelpEvent(ev)
HasValidTicker(ev) == ArgsOf(ev) # <<>> /\ IsTicker(upper(ArgsOf(ev)[1]))

\* this step is an invocation of process_message
Delivery == nDeliveries' = nDeliveries + 1

Last(q) == q[Len(q)]

\* C1: every StockRequest on the stock-request topic carries a ticker of one
\* to five letters A-Z, whatever texts were delivered.
C1_PublishedTickerWellFormed ==
    \A i \in DOMAIN stockRequests : IsTicker(stockRequests[i].ticker)

\* a request was published for an argument that was not upper-case as typed
C1_Witness ==
    /\ pm.called /\ IsStockEvent(pm.event) /\ HasValidTicker(pm.event)
    /\ ~IsTicker(ArgsOf(pm.event)[1])
    /\ stockRequests # <<>>
    /\ Last(stockRequests).ticker = upper(ArgsOf(pm.event)[1])

\* C2, as stated: a delivered message whose text does not start with '/'
\* causes no publish, no reply and no usage-log write.
C2_AsStated ==
    (pm.called /\ IsTextEvent(pm.event) /\ ~startswith(TextOf(pm.event), "/"))
        => pm.trace = <<>>

\* C2, amended: a delivered message whose text, once leading and trailing
\* whitespace is stripped, does not start with '/' causes no publish, no reply
\* (no group acknowledgment either) and no usage-log write; the topics, the
\* replies and the usage log are unchanged.
C2_NonCommandNoEffect ==
    [][(Delivery /\ IsTextEvent(pm'.event) /\ ~IsCommandEvent(pm'.event))
        => /\ pm'.trace = <<>>
           /\ UNCHANGED <<signalMessages, stockRequests, commands, responses>>]_vars

\* a non-empty non-command text arrived from a group after a command was
\* answered and logged
C2_Witness ==
    /\ pm.called /\ IsTextEvent(pm.event) /\ ~IsCommandEvent(pm.event)
    /\ TextOf(pm.event) # <<>> /\ HasGroup(pm.event)
    /\ commands # <<>> /\ responses # <<>>

\* C3: one delivery of '/stock <arg>' with a valid ticker, the publish and
\* the store both succeeding, publishes exactly one StockRequest (ticker the
\* upper-cased argument, sender and group_id those of the message) and writes
\* exactly one usage record with command '/stock' and the arguments as received.
C3_ValidStockPublishesOnceLogsOnce ==
    (pm.called /\ IsStockEvent(pm.event) /\ HasValidTicker(pm.event)
        /\ AllOk(pm.trace) /\ ~pm.errorLogged)
    => LET pubs == PublishCalls(pm.trace)
           logs == LogCalls(pm.trace)
       IN /\ Len(pubs) = 1 /\ Len(logs) = 1
          /\ stockRequests # <<>>
          /\ Last(stockRequests) =
                [sender |-> SourceOf(pm.event),
                 ticker |-> upper(ArgsOf(pm.event)[1]),
                 group_id |-> GroupOf(pm.event)]
          /\ StockRequest(pubs[1]) = Last(stockRequests)
          /\ commands # <<>>
          /\ Last(commands) =
                [sender |-> SourceOf(pm.event), command |-> T_stock,
                 args |-> ArgsOf(pm.event), group_id |-> GroupOf(pm.event)]
          /\ UsageRecord(logs[1]) = Last(commands)

\* '/Stock<tab>F <newline>x<newline>' from a group: two arguments, the first one valid
C3_Witness ==
    /\ pm.called /\ IsStockEvent(pm.event) /\ HasValidTicker(pm.event)
    /\ AllOk(pm.trace) /\ ~pm.errorLogged
    /\ Len(ArgsOf(pm.event)) = 2 /\ HasGroup(pm.event)
    /\ Len(stockRequests) = 2

\* C4: '/stock' without argument, or with a first argument that upper-cased
\* is not one to five letters, publishes nothing and produces exactly one
\* validation reply to the sender: the usage string when the argument is
\* missing, the invalid-ticker message otherwise.
C4_InvalidStockRepliesOnce ==
    [][(Delivery /\ IsStockEvent(pm'.event) /\ ~HasValidTicker(pm'.event))
        => LET v == ValidationReplies(pm'.trace) IN
           /\ PublishCalls(pm'.trace) = <<>>
           /\ stockRequests' = stockRequests
           /\ Len(v) = 1
           /\ v[1].text = IF ArgsOf(pm'.event) = <<>> THEN UsageText
                          ELSE InvalidTickerText
           /\ v[1].sender = SourceOf(pm'.event)
           /\ v[1].group_id = GroupOf(pm'.event)
           /\ \E k \in DOMAIN responses' :
                 k > Len(responses) /\ responses'[k] = Response(v[1])]_vars

\* a six-letter argument from a group, after a request was published
C4_Witness ==
    /\ pm.called /\ IsStockEvent(pm.event) /\ ArgsOf(pm.event) # <<>>
    /\ Len(upper(ArgsOf(pm.event)[1])) = 6
    /\ HasGroup(pm.event) /\ stockRequests # <<>>
    /\ \E i \in DOMAIN pm.trace : pm.trace[i].text = InvalidTickerText

\* C5: a command whose lower-cased first token is neither '/stock' nor
\* '/help' publishes nothing, is answered 'Unknown command: <name>' followed
\* by the help hint, with <name> the lower-cased first token, and is still
\* written to the usage log with that name as its command.
C5_UnknownCommandReplyAndLog ==
    [][(Delivery /\ IsUnknownEvent(pm'.event))
        => LET r == Replies(pm'.trace)
               logs == LogCalls(pm'.trace)
           IN /\ PublishCalls(pm'.trace) = <<>>
              /\ stockRequests' = stockRequests
              /\ r # <<>>
              /\ r[1].text = <<"Unknown command: ">> \o NameOf(pm'.event)
                             \o <<"\nType /help for available commands.">>
              /\ r[1].sender = SourceOf(pm'.event)
              /\ \A k \in 2..Len(r) : r[k].text = AckText(NameOf(pm'.event))
              /\ Len(logs) = 1
              /\ logs[1].command = NameOf(pm'.event)
              /\ logs[1].args = ArgsOf(pm'.event)
              /\ logs[1].ok => (commands' = Append(commands, UsageRecord(logs[1]))
                                /\ Last(commands').command = NameOf(pm'.event))]_vars

\* '/Foo x y' was answered and stored under the name '/foo'
C5_Witness ==
    /\ pm.called /\ IsUnknownEvent(pm.event)
    /\ NameOf(pm.event) # TokensOf(pm.event)[1]
    /\ ArgsOf(pm.event) # <<>>
    /\ commands # <<>> /\ Last(commands).command = NameOf(pm.event)

\* C6, as stated: every delivered command is followed by exactly one
\* usage-record write attempt, whichever branch was taken and whether or not
\* the dispatch step succeeded.
C6_CommandAlwaysLogged ==
    (pm.called /\ IsCommandEvent(pm.event)) => Len(LogCalls(pm.trace)) = 1

\* C7: a failing usage-record write neither blocks nor rolls back the
\* command: what the dispatch step published or replied stays, the group
\* acknowledgment that follows the write is still sent, and the handler
\* returns normally without having logged a fault.
C7_LogFailureIsAdvisory ==
    [][(Delivery /\ \E i \in DOMAIN pm'.trace : IsLogCall(pm'.trace[i]) /\ ~pm'.trace[i].ok)
        => LET tr == pm'.trace
               k == CHOOSE i \in DOMAIN tr : IsLogCall(tr[i])
           IN /\ k = 2
              /\ tr[1].ok
              /\ IsPublishCall(tr[1]) =>
                    stockRequests' = Append(stockRequests, StockRequest(tr[1]))
              /\ IsReply(tr[1]) =>
                    (Len(responses') > Len(responses)
                     /\ responses'[Len(responses) + 1] = Response(tr[1]))
              /\ commands' = commands
              /\ HasGroup(pm'.event) =>
                    (/\ Len(tr) = 3 /\ IsReply(tr[3])
                     /\ tr[3].text = AckText(NameOf(pm'.event))
                     /\ Last(responses') = Response(tr[3]))
              /\ pm'.outcome = "returned"
              /\ ~pm'.errorLogged]_vars

\* a request from a group was published, its usage record was refused and
\* the acknowledgment went out
C7_Witness ==
    /\ pm.called /\ HasGroup(pm.event)
    /\ \E i \in DOMAIN pm.trace : IsLogCall(pm.trace[i]) /\ ~pm.trace[i].ok
    /\ IsPublished(pm.trace[1])
    /\ Last(stockRequests) = StockRequest(pm.trace[1])
    /\ Last(responses).message = AckText(T_stock)

\* C8: process_message returns normally for every delivered event; no fault
\* leaves the handler, so the trigger never sees a failed delivery.
C8_AlwaysReturnsNormally == pm.called => pm.outcome = "returned"

\* a publish failed inside the handler, which logged it and returned
C8_Witness ==
    /\ pm.called /\ pm.errorLogged /\ pm.outcome = "returned"
    /\ \E i \in DOMAIN pm.trace : IsPublishCall(pm.trace[i]) /\ ~pm.trace[i].ok

----------------------------------------------------------------------------
\* Properties of the webhook ingress

\* this step is an invocation of signal_webhook
WebhookCall == nRequests' = nRequests + 1

\* the value at envelope.dataMessage.message of a JSON object body; a missing
\* or null link on the way leaves it absent
PathMessage(body) ==
    IF body.kind = "dict" /\ body.envelope.t = "obj"
       /\ body.envelope.dataMessage.t = "obj"
    THEN body.envelope.dataMessage.message
    ELSE JAbsent
IsJsonObject(body) == body.kind = "dict"
HasTextMessage(body) ==
    PathMessage(body).t = "str" /\ PathMessage(body).v # <<>>
HasNoTextMessage(body) ==
    PathMessage(body).t \in {"absent", "null"} \/ PathMessage(body) = JStr(<<>>)

\* C9, as stated: a POST whose JSON body carries a non-empty
\* envelope.dataMessage.message issues exactly one publish; it is answered 200
\* only when that publish was acknowledged, and when the publish fails it is
\* answered 500 and the message is not on the queue.
C9_ExactlyOnePublishPerTextMessage ==
    [][(WebhookCall /\ wh'.request.method = "POST"
            /\ IsJsonObject(wh'.request.body) /\ HasTextMessage(wh'.request.body))
        => /\ Len(wh'.calls) = 1
           /\ wh'.response.code = 200 =>
                (wh'.calls[1].ok
                 /\ signalMessages' = Append(signalMessages, wh'.calls[1].payload))
           /\ ~wh'.calls[1].ok =>
                (wh'.response.code = 500 /\ signalMessages' = signalMessages)]_vars

\* C10, as stated: a POST whose JSON body has envelope.dataMessage.message
\* absent or empty is answered 200 with status 'ignored' and leaves the
\* ingress queue unchanged.
C10_NoTextMessageIsIgnored ==
    [][(WebhookCall /\ wh'.request.method = "POST"
            /\ IsJsonObject(wh'.request.body) /\ HasNoTextMessage(wh'.request.body))
        => /\ wh'.response.code = 200
           /\ wh'.response.status = "ignored"
           /\ signalMessages' = signalMessages]_vars

\* C11: only a POST enqueues.  OPTIONS is answered with an empty body and the
\* permissive cross-origin headers, GET with the healthy payload, any other
\* method with 405 'Method not allowed'; none of them publishes, whatever the
\* body.
C11_OnlyPostEnqueues ==
    [][(WebhookCall /\ wh'.request.method # "POST")
        => /\ wh'.calls = <<>>
           /\ signalMessages' = signalMessages
           /\ wh'.request.method = "OPTIONS" =>
                (/\ wh'.response.status = "" /\ wh'.response.error = ""
                 /\ wh'.response.message = <<>>
                 /\ wh'.response.code = 204
                 /\ {"Access-Control-Allow-Origin", "Access-Control-Allow-Methods",
                     "Access-Control-Allow-Headers"} \subseteq wh'.response.headers)
           /\ wh'.request.method = "GET" =>
                (wh'.response.code = 200 /\ wh'.response.status = "healthy")
           /\ wh'.request.method \notin {"OPTIONS", "GET"} =>
                (wh'.response.code = 405
                 /\ wh'.response.error = "Method not allowed")]_vars

\* a PUT carrying a text message was refused while an earlier POST is queued
C11_Witness ==
    /\ wh.called /\ wh.request.method = "PUT"
    /\ HasTextMessage(wh.request.body)
    /\ wh.response.code = 405
    /\ signalMessages # <<>>

----------------------------------------------------------------------------
\* Properties of the signal-cli bridge

\* a step that is one invocation of a bridge endpoint
BridgeCall == nBridgeCalls' = nBridgeCalls + 1
IsCliCall(x) == x.op \in {"register", "verify", "send"}
IsBlobWrite(x) == x.op \in {"bucket.create", "upload"}
IsSecretWrite(x) == x.op \in {"create_secret", "add_secret_version"}
CliCalls(calls) == SelectSeq(calls, IsCliCall)
HasTempArchive(c, phone) == temp_blob_name(phone) \in c.blobs
HasVerifiedArchive(c, phone) == verified_blob_name(phone) \in c.blobs
LatestSecret(c) == IF c.versions = <<>> THEN <<>> ELSE c.versions[Len(c.versions)]
\* the last invocation was operation op of endpoint e, dispatched to its handler
Ran(b, e, op) ==
    /\ b.called /\ b.endpoint = e
    /\ CASE op = "register" -> Registers(b.request)
         [] op = "verify" -> Verifies(b.request)
         [] OTHER -> Sends(b.request)
\* what the CLI answered in the last invocation, "none" if it was not run
CliResult(b) ==
    IF CliCalls(b.calls) = <<>> THEN "none" ELSE CliCalls(b.calls)[1].result
PhoneOf(b) == b.request.body.phone_number.v

\* a malformed request: a POST without a JSON body, a POST lacking a required
\* field, or a method the endpoint does not support
MissingField(b) ==
    /\ b.request.method = "POST" /\ b.request.body.kind = "dict"
    /\ IF b.endpoint = "registration"
       THEN \/ ~truthy(get(b.request.body.phone_number))
            \/ /\ b.request.body.action = JStr(<<"verify">>)
               /\ ~truthy(get(b.request.body.verification_code))
       ELSE \/ ~truthy(get(b.request.body.message))
            \/ ~truthy(get(b.request.body.recipient))
                 /\ ~truthy(get(b.request.body.group_id))
Malformed(b) ==
    \/ b.request.method \notin {"POST", "GET"}
    \/ b.request.method = "POST" /\ b.request.body.kind = "none"
    \/ MissingField(b)

\* C12: a malformed request to the registration or the sender endpoint is
\* answered with a 4xx status and an error body, and nothing is run, stored
\* or written for it.
C12_MalformedInputIs4xx ==
    [][(BridgeCall /\ Malformed(br'))
        => /\ br'.response.code \in 400..499
           /\ br'.response.error # ""
           /\ br'.calls = <<>>
           /\ resources' = resources]_vars

\* C13: a verify for a phone that has no temp archive fails, whatever the CLI
\* answers: it is not answered with success, and neither the verified archive
\* of that phone nor a version of the secret is written.
C13_VerifyWithoutTempArchiveFails ==
    [][(BridgeCall /\ Ran(br', "registration", "verify")
          /\ ~HasTempArchive(resources, PhoneOf(br')))
        => /\ br'.response.code # 200
           /\ br'.response.status # "success"
           /\ ~HasVerifiedArchive(resources', PhoneOf(br'))
           /\ resources'.versions = resources.versions]_vars

\* C14: when the CLI run by register exits non-zero or times out, the archives
\* and the secret are unchanged and the answer is an error: 400 with the CLI's
\* stderr for a non-zero exit, 408 for a timeout.
C14_RegisterFailureChangesNothing ==
    [][(BridgeCall /\ Ran(br', "registration", "register")
          /\ CliResult(br') \in {"nonzero", "timeout"})
        => /\ resources' = resources
           /\ br'.response.status = "error"
           /\ CliResult(br') = "nonzero" =>
                /\ br'.response.code = 400
                /\ br'.response.message = <<"Registration failed: ">> \o Stderr
           /\ CliResult(br') = "timeout" => br'.response.code = 408]_vars

\* a register of P1 failed on the CLI's exit code while P2 is pending
C14_Witness ==
    /\ Ran(br, "registration", "register") /\ PhoneOf(br) = P1
    /\ CliResult(br) = "nonzero" /\ br.response.code = 400
    /\ HasTempArchive(resources, P2) /\ ~HasTempArchive(resources, P1)

\* C15: after a register answered 200 the archive temp/<phone>/config.tar.gz
\* exists, also when the blob store can fail.
C15_RegisterSuccessHasTempArchive ==
    (Ran(br, "registration", "register") /\ br.response.code = 200)
        => HasTempArchive(resources, PhoneOf(br))

\* C16: after a verify answered 200 the archive verified/<phone>/config.tar.gz
\* exists and the latest version of the secret is that phone, also when the
\* blob store or the vault can fail.
C16_VerifySuccessIsVerified ==
    (Ran(br, "registration", "verify") /\ br.response.code = 200)
        => /\ HasVerifiedArchive(resources, PhoneOf(br))
           /\ LatestSecret(resources) = PhoneOf(br)

\* C17: when the CLI run by verify exits non-zero or times out, the archives
\* and the secret are exactly as before and the answer is an error.
C17_VerifyFailureChangesNothing ==
    [][(BridgeCall /\ Ran(br', "registration", "verify")
          /\ CliResult(br') \in {"nonzero", "timeout"})
        => /\ resources' = resources
           /\ br'.response.status = "error"
           /\ br'.response.code \in {400, 408}]_vars

\* a verify of a pending P1 failed on a timeout, P1 still pending
C17_Witness ==
    /\ Ran(br, "registration", "verify") /\ PhoneOf(br) = P1
    /\ CliResult(br) = "timeout" /\ br.response.code = 408
    /\ HasTempArchive(resources, P1) /\ ~HasVerifiedArchive(resources, P1)

IsAccess(x) == x.op = "access_secret_version"
IsDownload(x) == x.op = "download"
Accesses(calls) == SelectSeq(calls, IsAccess)
Downloads(calls) == SelectSeq(calls, IsDownload)

\* C18: send runs the CLI only when the secret holds a phone and the verified
\* archive of exactly that phone was restored.  A secret that is unset or
\* cannot be read is answered 'No registered Signal number found', a verified
\* archive that cannot be restored fails the send, both without a run of the
\* CLI; no temp archive is ever read.
C18_SendNeedsVerifiedIdentity ==
    [][(BridgeCall /\ Ran(br', "sender", "send"))
        => /\ CliCalls(br'.calls) # <<>> =>
                /\ resources.versions # <<>>
                /\ Downloads(br'.calls) =
                     <<Call("download", verified_blob_name(LatestSecret(resources)), "ok")>>
                /\ HasVerifiedArchive(resources, LatestSecret(resources))
           /\ (resources.versions = <<>> \/ Accesses(br'.calls)[1].result = "raised") =>
                /\ br'.response.error = "No registered Signal number found"
                /\ br'.response.code # 200
                /\ CliCalls(br'.calls) = <<>>
           /\ (\E i \in DOMAIN br'.calls :
                 IsDownload(br'.calls[i]) /\ br'.calls[i].result = "raised") =>
                /\ br'.response.code # 200
                /\ br'.response.status = "error"
                /\ CliCalls(br'.calls) = <<>>
           /\ \A i \in DOMAIN br'.calls :
                IsDownload(br'.calls[i]) => br'.calls[i].target.tier = "verified"
           /\ resources' = resources]_vars

\* a send was refused because the verified archive of the registered phone
\* could not be restored, while its temp archive was there
C18_Witness ==
    /\ Ran(br, "sender", "send")
    /\ LatestSecret(resources) = P1 /\ HasTempArchive(resources, P1)
    /\ Downloads(br.calls) = <<Call("download", verified_blob_name(P1), "raised")>>
    /\ CliCalls(br.calls) = <<>>
    /\ br.response.code = 500

\* the last invocation ran one of the three operations
Operated(b) ==
    \/ Ran(b, "registration", "register")
    \/ Ran(b, "registration", "verify")
    \/ Ran(b, "sender", "send")
\* a fault inside the operation other than the CLI's exit code or timeout
IsFault(x) ==
    \/ x.op \in {"upload", "download", "add_secret_version", "access_secret_version"}
         /\ x.result = "raised"
    \/ IsCliCall(x) /\ x.result = "oserror"
OtherFault(b) ==
    /\ CliResult(b) \notin {"nonzero", "timeout"}
    /\ \E i \in DOMAIN b.calls : IsFault(b.calls[i])

\* C19: for register, verify and send the status tells the outcome of the CLI
\* call apart: 200 only after exit 0, 400 exactly for a non-zero exit, 408
\* exactly for a timeout, 500 for any other fault inside the operation.
C19_StatusTellsOutcome ==
    Operated(br)
        => /\ br.response.code = 200 => CliResult(br) = "exit0"
           /\ br.response.code = 400 <=> CliResult(br) = "nonzero"
           /\ br.response.code = 408 <=> CliResult(br) = "timeout"
           /\ OtherFault(br) => br.response.code = 500

----------------------------------------------------------------------------
\* Properties of the quote fetch handler

\* the last invocation fetched a quote from a non-empty price history
Quoted(s) ==
    /\ s.called /\ s.event.enc = "ok"
    /\ ~s.provider.raises /\ ~s.provider.empty

\* C20: for every current price and every non-zero previous close,
\* get_stock_data returns change = current price - previous close and
\* change_percent = change / previous close * 100 (100 and 110 give 10 and
\* 10); when the provider supplies no previous close, both are 0.
C20_ChangeAndPercent ==
    Quoted(sh) =>
        LET current_price == sh.provider.close
            previous == sh.provider.previousClose
            data == sh.stock_info.data
        IN /\ (previous.t = "num" /\ previous.v # 0) =>
                /\ sh.stock_info.success
                /\ data.change = current_price - previous.v
                /\ data.change_percent.d # 0
                /\ data.change_percent.n * previous.v
                     = data.change * 100 * data.change_percent.d
           /\ (previous = Number(100) /\ current_price = 110) =>
                /\ data.change = 10
                /\ data.change_percent = [n |-> 10, d |-> 1]
           /\ previous.t = "absent" =>
                /\ sh.stock_info.success
                /\ data.change = 0
                /\ data.change_percent.n = 0

\* a close of 100 after a previous close of 110: a loss of 100/11 percent
C20_Witness ==
    /\ Quoted(sh)
    /\ sh.provider.close = 100 /\ sh.provider.previousClose = Number(110)
    /\ sh.stock_info.success
    /\ sh.stock_info.data.change = -10
    /\ sh.stock_info.data.change_percent = [n |-> -100, d |-> 11]
    /\ Len(stockReplies) = 2

\* C21: for every provider answer with a non-empty price history whose
\* previous close is 0 or present but null, get_stock_data does not fault and
\* returns a successful quote whose change_percent is 0.
C21_FalsyPreviousCloseGivesZeroPercent ==
    (Quoted(sh) /\ (sh.provider.previousClose.t = "null"
                    \/ sh.provider.previousClose = Number(0)))
        => /\ sh.stock_info.success
           /\ sh.stock_info.data.change_percent.n = 0

\* one invocation of the quote fetch handler
StockCall == nStockDeliveries' = nStockDeliveries + 1
ErrorReplyText(ticker, detail) ==
    CrossEmoji \o <<" Error fetching data for ">> \o ticker \o <<": ">> \o detail

\* C22: when the provider has no price history for the ticker, or the lookup
\* raises, handle_stock_request hands exactly one reply 'Error fetching data
\* for <ticker>: <detail>' to the response dispatcher, addressed to the
\* request's sender and group_id, and returns normally.
C22_FailedLookupRepliesOnce ==
    [][(StockCall /\ sh'.event.enc = "ok"
          /\ (sh'.provider.raises \/ sh'.provider.empty))
        => /\ sh'.outcome = "returned"
           /\ Len(sh'.replies) = 1
           /\ stockReplies' = Append(stockReplies, sh'.replies[1])
           /\ sh'.replies[1].sender = sh'.event.request.sender
           /\ sh'.replies[1].group_id = sh'.event.request.group_id
           /\ \E detail \in {LookupErrorText, <<"No data found for ticker">>} :
                sh'.replies[1].message
                    = ErrorReplyText(sh'.event.request.ticker, detail)]_vars

\* an empty history for F asked by P2 outside a group, after a reply to P1
C22_Witness ==
    /\ sh.called /\ sh.event = StockEvent("ok", JStr(P2), <<"F">>, JNull)
    /\ ~sh.provider.raises /\ sh.provider.empty
    /\ Len(stockReplies) = 2
    /\ stockReplies[1].sender = JStr(P1)
    /\ stockReplies[2] =
         send_signal_response(JStr(P2),
                              ErrorReplyText(<<"F">>, <<"No data found for ticker">>),
                              JNull)

\* the quote of a reply text: the text up to the 'Updated' clock stamp that
\* closes a formatted quote (an error text has none)
StampAt(message) == {i \in DOMAIN message : <<message[i]>> = ClockEmoji}
QuoteContent(message) ==
    IF StampAt(message) = {} THEN message
    ELSE SubSeq(message, 1, (CHOOSE i \in StampAt(message) :
                               \A k \in StampAt(message) : i <= k) - 1)
RECURSIVE RepliesOf(_)
RepliesOf(h) ==
    IF h = <<>> THEN <<>>
    ELSE RepliesOf(SubSeq(h, 1, Len(h) - 1)) \o h[Len(h)].replies
\* deliveries i and j carry the same StockRequest and meet the same provider answer
SameRequest(i, j) ==
    /\ handled[i].event.enc = "ok"
    /\ handled[i].event = handled[j].event
    /\ handled[i].provider = handled[j].provider

----------------------------------------------------------------------------
\* Order of the router's effects

IsAckOf(x, ev) == x.e = "reply" /\ x.text = AckText(NameOf(ev))
IsFinalOf(x, ev) == (x.e = "reply" /\ x.text # AckText(NameOf(ev))) \/ x.e = "log"

\* C24: for a command with a group_id the acknowledgment 'Processing
\* <command> command...' comes before the final reply of the command (help
\* text, unknown-command text or validation reply) and before the
\* usage-record write, never after them.
C24_AckBeforeFinalReply ==
    (pm.called /\ IsCommandEvent(pm.event) /\ HasGroup(pm.event))
        => \A a, k \in DOMAIN pm.trace :
             (IsAckOf(pm.trace[a], pm.event) /\ IsFinalOf(pm.trace[k], pm.event))
               => a < k

----------------------------------------------------------------------------
\* Properties of the pipeline

\* the payload asks '/stock <ticker>' with a valid ticker that upper-cases to
\* T, from source s in group g
QuoteAsked ==
    [payload \in PipelineMessages |->
        IF IsStockEvent(payload) /\ HasValidTicker(payload)
        THEN <<get(payload.msg.source), upper(ArgsOf(payload)[1]),
               get(payload.msg.group_id)>>
        ELSE <<>>]
AsksQuote(payload, s, T, g) == QuoteAsked[payload] = <<s, T, g>>
\* the text is a reply of the quote handler about ticker T: the quote headed
\* '<name> (T)' or 'Error fetching data for T: ...'
AboutTicker(message, T) ==
    \/ /\ Len(message) >= Len(T) + 4
       /\ SubSeq(message, 1, Len(T) + 3)
            = CrossEmoji \o <<" Error fetching data for ">> \o T \o <<": ">>
    \/ /\ <<message[1]>> = ChartEmoji
       /\ \E k \in 1..(Len(message) - Len(T) - 1) :
            SubSeq(message, k, k + Len(T) + 1) = <<"(">> \o T \o <<")">>
Asked(s, T, g) ==
    Cardinality({i \in DOMAIN signalMessages : AsksQuote(signalMessages[i], s, T, g)})
Answered(s, T, g) ==
    Cardinality({k \in DOMAIN stockReplies :
                   /\ stockReplies[k].sender = s /\ stockReplies[k].group_id = g
                   /\ AboutTicker(stockReplies[k].message, T)})
\* the webhook has just answered 'success' to such a POST
AnsweredSuccess(s, T, g) ==
    /\ wh.called /\ wh.request.method = "POST"
    /\ wh.response.code = 200 /\ wh.response.status = "success"
    /\ signalMessages # <<>> /\ AsksQuote(Last(signalMessages), s, T, g)
    /\ PathMessage(wh.request.body) = Last(signalMessages).msg.message

\* C25: with both queues delivering at least once and the publishes
\* succeeding, every webhook POST answered 'success' for a text '/stock
\* <valid ticker>' is eventually handled by the quote handler, which hands a
\* reply (quote or error text) for the upper-cased ticker to the response
\* dispatcher, addressed to the envelope's source and group id: the n-th such
\* POST leads to at least n such replies.
C25_SuccessLeadsToReply ==
    \A c \in {<<JStr(P1), GOOGL, JStr(G1)>>, <<JNull, <<"F">>, JNull>>}, n \in 1..MaxPosts :
        (AnsweredSuccess(c[1], c[2], c[3]) /\ Asked(c[1], c[2], c[3]) = n)
            ~> (Answered(c[1], c[2], c[3]) >= n)

\* both POSTs asked for GOOGL in the group and both were answered there, the
\* first one twice because its acknowledgment was lost
C25_Witness ==
    /\ Asked(JStr(P1), GOOGL, JStr(G1)) = 2
    /\ Answered(JStr(P1), GOOGL, JStr(G1)) = 3
    /\ redelivered # {}
    /\ ackedMessages = {1, 2}

----------------------------------------------------------------------------
\* Invariants of the stored identity

\* call k of the last invocation added phone as a secret version
AddedSecret(k, phone) ==
    br.calls[k] = Call("add_secret_version", phone, "ok")
\* before call k the verified archive of phone was uploaded in the same invocation
UploadedBefore(k, phone) ==
    \E u \in 1..(k - 1) : br.calls[u] = Call("upload", verified_blob_name(phone), "ok")

\* C26: after any register, verify and send calls, with the CLI, the blob
\* store and the vault failing at will, every phone the secret holds has its
\* archive verified/<phone>/config.tar.gz: a secret version is only added
\* after the verified archive was uploaded in the same call.
C26_SecretImpliesVerifiedArchive ==
    /\ \A v \in DOMAIN resources.versions :
         HasVerifiedArchive(resources, resources.versions[v])
    /\ \A k \in DOMAIN br.calls, phone \in Phones :
         AddedSecret(k, phone) => UploadedBefore(k, phone)

\* P1 is verified and in the secret; a later verify of P2 was answered 200
\* although its upload failed, and the secret still holds P1
C26_Witness ==
    /\ Ran(br, "registration", "verify") /\ PhoneOf(br) = P2
    /\ br.response.code = 200
    /\ ~HasVerifiedArchive(resources, P2)
    /\ LatestSecret(resources) = P1 /\ HasVerifiedArchive(resources, P1)

VerifiedArchives(c) == {b \in c.blobs : b.tier = "verified"}
TempArchives(c) == {b \in c.blobs : b.tier = "temp"}

\* C27: only a verify changes the verified identity.  A send, successful or
\* not, leaves the temp archives, the verified archives and the secret as
\* they were; a register, also of a phone that is already verified, leaves
\* the verified archives and the secret as they were.
C27_OnlyVerifyChangesIdentity ==
    [][BridgeCall =>
        /\ br'.endpoint = "sender" =>
             /\ TempArchives(resources') = TempArchives(resources)
             /\ VerifiedArchives(resources') = VerifiedArchives(resources)
             /\ resources'.secret = resources.secret
             /\ resources'.versions = resources.versions
        /\ (br'.endpoint = "registration" /\ ~Verifies(br'.request)) =>
             /\ VerifiedArchives(resources') = VerifiedArchives(resources)
             /\ resources'.secret = resources.secret
             /\ resources'.versions = resources.versions]_vars

\* P1, registered and verified, was registered once more
C27_Witness ==
    /\ Ran(br, "registration", "register") /\ PhoneOf(br) = P1
    /\ br.response.code = 200
    /\ \E k \in DOMAIN br.calls : br.calls[k] = Call("upload", temp_blob_name(P1), "ok")
    /\ HasVerifiedArchive(resources, P1) /\ LatestSecret(resources) = P1

====
